---- MODULE Spec2Model ----
(***************************************************************************)
(* SecureVault Offline: the vault engine.                                  *)
(*                                                                         *)
(* KeyManager (unlock / lock / auto-lock timer), CryptoService (deriveKey, *)
(* encrypt) and the encrypted storage path (savePassword, useEncryptedData)*)
(* are translated from the TypeScript of src/ARCHITECTURE.md.  Every       *)
(* `await` of an async method is a point where another task may run, so    *)
(* unlock and savePassword are split at their awaits.                      *)
(*                                                                         *)
(* load, rekey, exportBundle and importBundle have no body in the source   *)
(* files at hand; they follow the design document and are marked so.       *)
(*                                                                         *)
(* Time is counted in minutes.  Encryption is symbolic: an envelope names  *)
(* the key that made it, and decryption with another key fails.            *)
(***************************************************************************)
EXTENDS Integers, FiniteSets, Sequences, TLC

VARIABLES
    masterKey,      \* KeyManager.masterKey: a key, or NoKey (null)
    autoLockTimer,  \* KeyManager.autoLockTimer: a timer id, or NoTimer (null)
    timers,         \* the runtime's pending setTimeout tasks: [id, due]
    nextTimerId,    \* the id the next setTimeout returns
    now,            \* the clock, in minutes
    unlockPc,       \* where the unlock() in flight stands
    unlockPw,       \* its password argument
    unlockSalt,     \* the salt of the metadata it read
    lastEvent,      \* the last notification given to the UI layer
    metadata,       \* VaultMetadataStore: the vault's bootstrap record
    records,        \* RecordStore: id -> stored record, or NoRecord
    savePc,         \* where the savePassword() in flight stands
    saveItem,       \* the { id, data: encrypted } it is about to put
    lastOp,         \* the last completed call: its name, result, and I/O
    lastActivity,   \* time of the last successful unlock or vault read/write
    lastSaved,      \* id -> the plaintext of the last save that succeeded
    rekey,          \* the rekey() in flight: its keys and staged envelopes
    rekeyPre,       \* metadata and records as they were when it began
    bundle,         \* the VaultBundle last exported, or NoBundle
    import,         \* the importBundle() in flight, and its password
    exported,       \* what the vault held at the export, and wipes since
    crypto,         \* the CryptoService calls of one encrypt/decrypt test
    entries,        \* RecordStore with its non-secret fields: a set of records
    prepared,       \* caller -> the write it has made and not yet applied
    lastPut,        \* id -> the item of the last put since the last delete
    writeCount,     \* writes prepared so far: the source of lastModified
    sw,             \* the service worker: its phase, and the caches it found
    cacheNames,     \* caches.keys(): the caches of the origin
    cached,         \* the entries of those caches: [cache, path]
    response,       \* the last fetch event, and what it was answered with
    subscriptions,  \* SubscriptionAnalytics: the subscriptions prop
    budgetSettings, \* the budget of each category; 0 is none
    categoryAnalytics,  \* the categoryAnalytics memo of the last render
    budgetAlerts    \* the budgetAlerts memo of the last render

vars == <<masterKey, autoLockTimer, timers, nextTimerId, now, unlockPc,
          unlockPw, unlockSalt, lastEvent, metadata, records, savePc,
          saveItem, lastOp, lastActivity, lastSaved, rekey, rekeyPre,
          bundle, import, exported, crypto, entries, prepared, lastPut,
          writeCount, sw, cacheNames, cached, response, subscriptions,
          budgetSettings, categoryAnalytics, budgetAlerts>>

kmVars == <<masterKey, autoLockTimer, timers, nextTimerId, lastEvent>>
unlockVars == <<unlockPc, unlockPw, unlockSalt>>
storeVars == <<metadata, records>>
saveVars == <<savePc, saveItem>>
ghostVars == <<lastActivity, lastSaved>>
rekeyVars == <<rekey, rekeyPre>>
bundleVars == <<bundle, import, exported>>
cryptoVars == <<crypto>>
recordVars == <<entries, prepared, lastPut, writeCount>>
analyticsVars == <<subscriptions, budgetSettings, categoryAnalytics,
                   budgetAlerts>>
extVars == <<cryptoVars, recordVars, analyticsVars>>
workerVars == <<sw, cacheNames, cached, response>>
vaultVars == <<kmVars, unlockVars, now, storeVars, saveVars, ghostVars,
               rekeyVars, bundleVars>>

-----------------------------------------------------------------------------
(* Bounds of the model *)

\* the clock runs this many steps
MaxTicks == 4
\* setTimeout calls in one behaviour
MaxTimers == 2
\* salts a vault goes through: one less is the number of rekeys
MaxSalt == 2
\* writes the callers of the RecordStore prepare in one behaviour
MaxWrites == 3

Passwords == {"pwA", "pwB"}
Plaintexts == {"site1", "site2"}
\* the record ids, in the order the store enumerates them
IdOrder == <<"p1", "p2">>
Ids == {IdOrder[i] : i \in 1..Len(IdOrder)}

\* null, for a key, a record, the metadata record, a bundle and a plaintext
NoKey == [null |-> "key"]
NoRecord == [null |-> "record"]
NoMeta == [null |-> "metadata"]
NoBundle == [null |-> "bundle"]
NoPlaintext == "none"
\* null, for a timer handle: setTimeout returns positive ids
NoTimer == 0
DecryptionFailed == "Decryption failed"
KeyCheckConstant == "key-check"
FirstSalt == 1

EmptyStore == [id \in Ids |-> NoRecord]

-----------------------------------------------------------------------------
(* CryptoService *)

\* PBKDF2: the key is a function of password and salt, and of nothing else
deriveKey(password, salt) == [pw |-> password, salt |-> salt]

\* the envelope is sealed under no key at all
encryptKeyless(data, key) ==
    [algorithm |-> "AES-GCM", key |-> NoKey, data |-> data]

\* AES-GCM: the envelope of `data` under `key`
encrypt(data, key) == [algorithm |-> "AES-GCM", key |-> key, data |-> data]

\* the tag is not looked at
decryptUnchecked(encrypted, key) == encrypted.data

\* AES-GCM decryption: the tag verifies under the encrypting key only
decrypt(encrypted, key) ==
    IF key # NoKey /\ encrypted.key = key THEN encrypted.data
    ELSE DecryptionFailed

-----------------------------------------------------------------------------
(* KeyManager *)

\* a timeout twice as long as the one configured
timeoutDoubled == 2 * 15

\* const timeout = 15 * 60 * 1000, in minutes
timeout == 15

\* the key survives the lock
keptKey(key) == key

\* lock(): this.masterKey = null
clearedKey(key) == NoKey

\* the timeout is left pending
keptTimeouts(pending, handle) == pending

\* lock(): if (this.autoLockTimer) clearTimeout(this.autoLockTimer)
clearTimeout(pending, handle) == {t \in pending : t.id # handle}

\* the body of lock(), applied to the pending-timer set `pending`
lockBody(pending) ==
    /\ masterKey' = clearedKey(masterKey)
    /\ timers' = clearTimeout(pending, autoLockTimer)
    /\ autoLockTimer' = NoTimer
    /\ lastEvent' = "Locked"

\* setAutoLockTimer(): setTimeout(() => this.lock(), timeout)
setAutoLockTimer ==
    /\ timers' = timers \cup {[id |-> nextTimerId, due |-> now + timeout]}
    /\ autoLockTimer' = nextTimerId
    /\ nextTimerId' = nextTimerId + 1

\* the key check of a metadata record under `key`
keyChecks(meta, key) ==
    /\ meta # NoMeta
    /\ decrypt(meta.keyCheckEnvelope, key) = KeyCheckConstant

\* verifyKey(): the key-check envelope decrypts to the known constant
verifyKey(key) == keyChecks(metadata, key)

\* The state of the KeyManager, read off its fields: the key assigned by
\* an unlock() that has not verified it yet is a candidate key
State ==
    IF masterKey = NoKey THEN "Locked"
    ELSE IF unlockPc = "verify" THEN "Unlocking"
    ELSE "Unlocked"

\* unlock(password), up to `await this.getVaultMetadata()`; a read that
\* fails (a storage error, no metadata) lands in the catch block
unlockBegin(password) ==
    /\ unlockPc = "idle"
    /\ nextTimerId <= MaxTimers
    /\ \/ /\ metadata # NoMeta
          /\ unlockPc' = "derive"
          /\ unlockPw' = password
          /\ unlockSalt' = metadata.salt
          /\ UNCHANGED <<kmVars, lastOp>>
       \/ /\ lockBody(timers)
          /\ lastOp' = [op |-> "unlock", result |-> "false", io |-> TRUE,
                       from |-> State]
          /\ UNCHANGED <<nextTimerId, unlockVars>>
    /\ UNCHANGED <<now, storeVars, saveVars, ghostVars, rekeyVars, bundleVars,
                   extVars, workerVars>>

\* this.masterKey = await this.deriveKey(password, metadata.salt)
unlockDerive ==
    /\ unlockPc = "derive"
    /\ masterKey' = deriveKey(unlockPw, unlockSalt)
    /\ unlockPc' = "verify"
    /\ UNCHANGED <<autoLockTimer, timers, nextTimerId, lastEvent, unlockPw,
                   unlockSalt, now, storeVars, saveVars, lastOp, ghostVars,
                   rekeyVars, bundleVars,
                   extVars, workerVars>>

\* await this.verifyKey(); then setAutoLockTimer() and return true, or the
\* catch block: this.lock() and return false
unlockVerify ==
    /\ unlockPc = "verify"
    /\ unlockPc' = "idle"
    /\ IF verifyKey(masterKey)
       THEN /\ setAutoLockTimer
            /\ lastEvent' = "Unlocked"
            /\ lastOp' = [op |-> "unlock", result |-> "true", io |-> TRUE,
                       from |-> State]
            /\ lastActivity' = now
            /\ UNCHANGED masterKey
       ELSE /\ lockBody(timers)
            /\ lastOp' = [op |-> "unlock", result |-> "false", io |-> TRUE,
                       from |-> State]
            /\ UNCHANGED <<nextTimerId, lastActivity>>
    /\ UNCHANGED <<unlockPw, unlockSalt, now, storeVars, saveVars, lastSaved,
                   rekeyVars, bundleVars,
                   extVars, workerVars>>

\* lock(), called by the user
lock ==
    /\ lockBody(timers)
    /\ lastOp' = [op |-> "lock", result |-> "ok", io |-> FALSE, from |-> State]
    /\ UNCHANGED <<nextTimerId, unlockVars, now, storeVars, saveVars,
                   ghostVars, rekeyVars, bundleVars,
                   extVars, workerVars>>

\* a pending timeout comes due: the runtime drops it and runs () => this.lock()
timerFires ==
    \E t \in timers :
        /\ t.due <= now
        /\ lockBody(timers \ {t})
        /\ lastOp' = [op |-> "autoLock", result |-> "ok", io |-> FALSE,
                   from |-> State]
        /\ UNCHANGED <<nextTimerId, unlockVars, now, storeVars, saveVars,
                       ghostVars, rekeyVars, bundleVars,
                   extVars, workerVars>>

\* the clock moves in steps of a third of the timeout
TickMinutes == timeout \div 3

\* the clock advances; a timeout that is due runs before time moves on
tick ==
    /\ now + TickMinutes <= MaxTicks * TickMinutes
    /\ \A t \in timers : t.due > now
    /\ now' = now + TickMinutes
    /\ UNCHANGED <<kmVars, unlockVars, storeVars, saveVars, lastOp,
                   ghostVars, rekeyVars, bundleVars,
                   extVars, workerVars>>

-----------------------------------------------------------------------------
(* The encrypted storage path *)

\* the call fails for want of a key: nothing was read or written
VaultLocked == [result |-> "VaultLocked", io |-> FALSE]

\* the payload goes to the store as it is, outside any envelope
putPayload(store, item) ==
    [store EXCEPT ![item.id] =
        [id |-> item.id,
         data |-> [algorithm |-> "none", key |-> NoKey,
                   data |-> item.data.data]]]

\* store.put({ id: password.id, data: encrypted }): an upsert keyed by id
put(store, item) ==
    [store EXCEPT ![item.id] = [id |-> item.id, data |-> item.data]]

\* the critical section is left open
alwaysAdmitted == TRUE

\* a rekey in flight keeps new writes out
writesAdmitted == rekey.pc = "idle"

\* crypto.subtle.encrypt throws on a key that is null
encryptThrows(key) == key = NoKey

\* savePassword(password), up to `await this.cryptoService.encrypt(
\* JSON.stringify(password), this.masterKey)`: the key is read at the call,
\* and the throw comes before the store is touched
saveEncrypt(id, plaintext) ==
    /\ savePc = "idle"
    /\ writesAdmitted
    /\ IF encryptThrows(masterKey)
       THEN /\ lastOp' = [op |-> "save", from |-> State] @@ VaultLocked
            /\ UNCHANGED saveVars
       ELSE /\ saveItem' = [id |-> id, data |-> encrypt(plaintext, masterKey),
                             from |-> State]
            /\ savePc' = "put"
            /\ UNCHANGED lastOp
    /\ UNCHANGED <<kmVars, unlockVars, now, storeVars, ghostVars, rekeyVars,
                   bundleVars,
                   extVars, workerVars>>

\* savePassword, from the transaction on: the envelope made before the
\* await is written whatever the KeyManager holds by now
savePut ==
    /\ savePc = "put"
    /\ records' = put(records, saveItem)
    /\ savePc' = "idle"
    /\ saveItem' = NoRecord
    /\ lastOp' = [op |-> "save", result |-> "ok", io |-> TRUE,
               from |-> saveItem.from]
    /\ lastSaved' = [lastSaved EXCEPT ![saveItem.id] = saveItem.data.data]
    /\ lastActivity' = now
    /\ UNCHANGED <<kmVars, unlockVars, now, metadata, rekeyVars, bundleVars,
                   extVars, workerVars>>

\* load(category, id): decryptFromStorage of what RecordStore.get returns;
\* it fails with VaultLocked outside Unlocked
loadResult(id) ==
    IF State # "Unlocked" THEN VaultLocked
    ELSE IF records[id] = NoRecord THEN [result |-> "NotFound", io |-> TRUE]
    ELSE [result |-> decrypt(records[id].data, masterKey), io |-> TRUE]

load(id) ==
    /\ lastOp' = [op |-> "load", from |-> State] @@ loadResult(id)
    /\ lastActivity' =
           IF lastOp'.result \in Plaintexts THEN now ELSE lastActivity
    /\ UNCHANGED <<kmVars, unlockVars, now, storeVars, saveVars, lastSaved,
                   rekeyVars, bundleVars,
                   extVars, workerVars>>

\* useEncryptedData: `if (masterKey) refetch()`; refetch reads every item
\* and decrypts them all under masterKey, and one failure rejects the lot
listResult ==
    IF masterKey = NoKey THEN VaultLocked
    ELSE IF \E id \in Ids : /\ records[id] # NoRecord
                            /\ decrypt(records[id].data, masterKey)
                                   = DecryptionFailed
         THEN [result |-> DecryptionFailed, io |-> TRUE]
         ELSE [result |-> "ok", io |-> TRUE]

listDecrypted ==
    /\ lastOp' = [op |-> "listDecrypted", from |-> State] @@ listResult
    /\ lastActivity' = IF lastOp'.result = "ok" THEN now ELSE lastActivity
    /\ UNCHANGED <<kmVars, unlockVars, now, storeVars, saveVars, lastSaved,
                   rekeyVars, bundleVars,
                   extVars, workerVars>>

-----------------------------------------------------------------------------
(* rekey(newPassword): stage every record under the new key, then commit *)

NoRekey == [pc |-> "idle", oldKey |-> NoKey, newKey |-> NoKey,
            staged |-> EmptyStore, index |-> 0]

\* the ids the store holds
stored(store) == {id \in Ids : store[id] # NoRecord}

\* the first stored record not staged yet, in the store's order
nextToStage ==
    LET left == SelectSeq(IdOrder, LAMBDA id : /\ records[id] # NoRecord
                                                /\ rekey.staged[id] = NoRecord)
    IN  IF left = <<>> THEN NoPlaintext ELSE Head(left)

\* the commit goes ahead however few records are staged
commitsEarly == TRUE

\* every record is re-encrypted and staged
allStaged == nextToStage = NoPlaintext

\* the envelopes staged so far reach the store
stagedWritten(store, staged) ==
    [id \in Ids |-> IF staged[id] # NoRecord THEN staged[id] ELSE store[id]]


\* an abort drops what was staged: the store is as it was
abortedStore(store, staged) == store

\* the batch commit: each staged envelope replaces the stored one
committedStore(store, staged) ==
    [id \in Ids |-> IF staged[id] # NoRecord THEN staged[id] ELSE store[id]]

\* the metadata of the vault under `key`
newMetadata(key) ==
    [salt |-> key.salt, keyCheckEnvelope |-> encrypt(KeyCheckConstant, key)]

rekeyAbort ==
    /\ rekey' = [NoRekey EXCEPT !.newKey = rekey.newKey,
                                !.index = Cardinality(stored(rekey.staged))]
    /\ records' = abortedStore(records, rekey.staged)
    /\ lastOp' = [op |-> "rekey", result |-> "RekeyAborted", io |-> TRUE,
                  from |-> State]
    /\ UNCHANGED <<metadata, masterKey>>

\* Unlocked --rekey(newPassword)--> : a new salt, and the key derived from it
rekeyBegin(newPassword) ==
    /\ rekey.pc = "idle"
    /\ savePc = "idle"
    /\ metadata # NoMeta
    /\ metadata.salt < MaxSalt
    /\ IF State # "Unlocked"
       THEN /\ lastOp' = [op |-> "rekey", from |-> State] @@ VaultLocked
            /\ UNCHANGED rekeyVars
       ELSE /\ rekey' = [pc |-> "staging", oldKey |-> masterKey,
                         newKey |-> deriveKey(newPassword, metadata.salt + 1),
                         staged |-> EmptyStore, index |-> 0]
            /\ rekeyPre' = [metadata |-> metadata, records |-> records]
            /\ UNCHANGED lastOp
    /\ UNCHANGED <<kmVars, unlockVars, now, storeVars, saveVars, ghostVars,
                   bundleVars,
                   extVars, workerVars>>

\* one record is decrypted under the old key and staged under the new one,
\* or the step fails (a record that does not decrypt, an injected fault)
\* and the rekey aborts
rekeyStage ==
    /\ rekey.pc = "staging"
    /\ ~allStaged
    /\ LET id == nextToStage
           plaintext == decrypt(records[id].data, rekey.oldKey)
       IN  \/ /\ plaintext # DecryptionFailed
              /\ rekey' = [rekey EXCEPT !.staged[id] =
                              [id |-> id,
                               data |-> encrypt(plaintext, rekey.newKey)]]
              /\ UNCHANGED <<masterKey, storeVars, lastOp>>
           \/ rekeyAbort
    /\ UNCHANGED <<autoLockTimer, timers, nextTimerId, lastEvent, unlockVars,
                   now, saveVars, ghostVars, rekeyPre, bundleVars,
                   extVars, workerVars>>

\* with everything staged, one transaction writes the staged envelopes and
\* the new metadata, and the KeyManager takes the new key; a transaction
\* that fails writes nothing
rekeyCommit ==
    /\ rekey.pc = "staging"
    /\ allStaged
    /\ \/ /\ records' = committedStore(records, rekey.staged)
          /\ metadata' = newMetadata(rekey.newKey)
          /\ masterKey' = IF masterKey = rekey.oldKey THEN rekey.newKey
                          ELSE masterKey
          /\ rekey' = [NoRekey EXCEPT !.newKey = rekey.newKey,
                                      !.index = Cardinality(stored(records))]
          /\ lastOp' = [op |-> "rekey", result |-> "ok", io |-> TRUE,
                        from |-> State]
       \/ rekeyAbort
    /\ UNCHANGED <<autoLockTimer, timers, nextTimerId, lastEvent, unlockVars,
                   now, saveVars, ghostVars, rekeyPre, bundleVars,
                   extVars, workerVars>>

-----------------------------------------------------------------------------
(* exportBundle() and importBundle(bundle, password) *)

\* listAll(): every stored record, in the store's order
listAll(store) ==
    LET ids == SelectSeq(IdOrder, LAMBDA id : store[id] # NoRecord)
    IN  [i \in 1..Len(ids) |-> store[ids[i]]]

\* all but the last record
listAllButLast(store) ==
    LET all == listAll(store)
    IN  IF all = <<>> THEN all ELSE SubSeq(all, 1, Len(all) - 1)

\* the records of a bundle: those the store lists
bundleRecords(store) == listAll(store)

RECURSIVE putAll(_, _)
\* the records of a bundle, put one by one
putAll(store, items) ==
    IF items = <<>> THEN store
    ELSE putAll(put(store, Head(items)), Tail(items))

\* what the records decrypt to under the vault's own key
plainUnder(store, key) ==
    [id \in Ids |-> IF store[id] = NoRecord THEN NoPlaintext
                    ELSE decrypt(store[id].data, key)]

\* exportBundle(): metadata and envelopes as stored; no key is asked for
exportBundle ==
    /\ metadata # NoMeta
    /\ import.pc = "idle"
    /\ bundle' = [metadata |-> metadata, records |-> bundleRecords(records)]
    /\ exported' = [plain |-> plainUnder(records, metadata.keyCheckEnvelope.key),
                    wiped |-> FALSE]
    /\ lastOp' = [op |-> "export", result |-> "ok", io |-> TRUE,
                  from |-> State]
    /\ UNCHANGED <<kmVars, unlockVars, now, storeVars, saveVars, ghostVars,
                   rekeyVars, import,
                   extVars, workerVars>>

\* the local store is wiped: no metadata, no records
wipe ==
    /\ savePc = "idle" /\ import.pc = "idle" /\ rekey.pc = "idle"
    /\ metadata' = NoMeta
    /\ records' = EmptyStore
    /\ exported' = [exported EXCEPT !.wiped = bundle # NoBundle]
    /\ lastOp' = [op |-> "wipe", result |-> "ok", io |-> TRUE, from |-> State]
    /\ UNCHANGED <<kmVars, unlockVars, now, saveVars, ghostVars, rekeyVars,
                   bundle, import,
                   extVars, workerVars>>

\* the check is skipped
unverified(b, password) == TRUE

\* the bundle's keyCheckEnvelope verifies under the password's key
bundleVerifies(b, password) ==
    keyChecks(b.metadata, deriveKey(password, b.metadata.salt))

\* importBundle(bundle, password), up to the verification: a password that
\* does not verify ends the call before anything is written
importBegin(password) ==
    /\ bundle # NoBundle
    /\ import.pc = "idle"
    /\ savePc = "idle" /\ rekey.pc = "idle"
    /\ IF bundleVerifies(bundle, password)
       THEN /\ import' = [pc |-> "write", pw |-> password]
            /\ UNCHANGED lastOp
       ELSE /\ import' = [pc |-> "idle", pw |-> password]
            /\ lastOp' = [op |-> "import",
                          result |-> "ImportAuthenticationFailed",
                          io |-> FALSE, from |-> State]
    /\ UNCHANGED <<kmVars, unlockVars, now, storeVars, saveVars, ghostVars,
                   rekeyVars, bundle, exported,
                   extVars, workerVars>>

\* one transaction replaces the local metadata and records by the
\* bundle's; a transaction that fails writes nothing
importWrite ==
    /\ import.pc = "write"
    /\ import' = [import EXCEPT !.pc = "idle"]
    /\ \/ /\ metadata' = bundle.metadata
          /\ records' = putAll(EmptyStore, bundle.records)
          /\ lastOp' = [op |-> "import", result |-> "ok", io |-> TRUE,
                        from |-> State]
       \/ /\ lastOp' = [op |-> "import", result |-> "StorageFailure",
                        io |-> TRUE, from |-> State]
          /\ UNCHANGED storeVars
    /\ UNCHANGED <<kmVars, unlockVars, now, saveVars, ghostVars, rekeyVars,
                   bundle, exported,
                   extVars, workerVars>>

-----------------------------------------------------------------------------
(* CryptoService, called as the security tests call it: a key is derived,  *)
(* a payload encrypted under it, and the envelope decrypted under a key     *)
(* derived again                                                            *)

Salts == FirstSalt..MaxSalt

NoCrypto == [pc |-> "idle", pw |-> "none", salt |-> FirstSalt, key |-> NoKey,
             plaintext |-> NoPlaintext, envelope |-> NoRecord,
             tampered |-> FALSE, withPw |-> "none", withSalt |-> FirstSalt,
             out |-> NoPlaintext]

\* an envelope altered in storage: its tag verifies under no key
tamper(envelope) == [envelope EXCEPT !.key = NoKey]

cryptoDerive(password, salt) ==
    /\ crypto.pc = "idle"
    /\ crypto' = [NoCrypto EXCEPT !.pc = "key", !.pw = password,
                                  !.salt = salt,
                                  !.key = deriveKey(password, salt)]
    /\ UNCHANGED <<vaultVars, lastOp, recordVars, workerVars, analyticsVars>>

cryptoEncrypt(plaintext) ==
    /\ crypto.pc = "key"
    /\ crypto' = [crypto EXCEPT !.pc = "sealed", !.plaintext = plaintext,
                                !.envelope = encrypt(plaintext, crypto.key)]
    /\ UNCHANGED <<vaultVars, lastOp, recordVars, workerVars, analyticsVars>>

cryptoTamper ==
    /\ crypto.pc = "sealed"
    /\ ~crypto.tampered
    /\ crypto' = [crypto EXCEPT !.tampered = TRUE,
                                !.envelope = tamper(crypto.envelope)]
    /\ UNCHANGED <<vaultVars, lastOp, recordVars, workerVars, analyticsVars>>

\* the key is derived afresh from a password and a salt for the decryption
cryptoDecrypt(password, salt) ==
    /\ crypto.pc = "sealed"
    /\ crypto' = [crypto EXCEPT !.pc = "opened", !.withPw = password,
                                !.withSalt = salt,
                                !.out = decrypt(crypto.envelope,
                                                deriveKey(password, salt))]
    /\ UNCHANGED <<vaultVars, lastOp, recordVars, workerVars, analyticsVars>>

-----------------------------------------------------------------------------
(* RecordStore: put, get, delete, list, listAll over records that carry    *)
(* their non-secret fields; the callers are independent tasks, and a save  *)
(* makes its record (the await of encrypt) before it puts it               *)

Callers == {"c1", "c2"}
Envelopes == {"e1", "e2"}
\* the record ids, in key order; each typed save writes its own category
StoreIdOrder == <<"r1", "r2", "r3">>
StoreIds == {StoreIdOrder[i] : i \in 1..Len(StoreIdOrder)}
categoryOf == [id \in StoreIds |-> IF id = "r3" THEN "Note" ELSE "Password"]
Categories == {categoryOf[id] : id \in StoreIds}

NoWrite == [kind |-> "none"]

\* get(id): the record stored under the id, or NotFound
get(store, id) ==
    IF \E r \in store : r.id = id THEN CHOOSE r \in store : r.id = id
    ELSE NoRecord

\* the write is dropped when the id is already there
putIfAbsent(store, item) ==
    IF \E r \in store : r.id = item.id THEN store ELSE store \cup {item}

\* the item is added beside what is there
addItem(store, item) == store \cup {item}

\* store.put(item): the item replaces whatever the store holds under its key
putItem(store, item) == {r \in store : r.id # item.id} \cup {item}

\* delete(id): immediate and permanent
deleteItem(store, id) == {r \in store : r.id # id}

RECURSIVE byLastModified(_)
\* the records of a set, newest first
byLastModified(rs) ==
    IF rs = {} THEN <<>>
    ELSE LET newest == CHOOSE r \in rs :
                           \A q \in rs : q.lastModified <= r.lastModified
         IN  <<newest>> \o byLastModified(rs \ {newest})

\* every record, whatever its category
listUnfiltered(store, category) == byLastModified(store)

\* list(category): exact match on the category, lastModified descending
list(store, category) ==
    byLastModified({r \in store : r.category = category})

\* listAll() of the RecordStore
listAllRecords(store) == byLastModified(store)

\* a save by caller c, up to its put: the record is made, stamped, and
\* held while the call awaits
storePrepare(c, id, data) ==
    /\ prepared[c] = NoWrite
    /\ writeCount < MaxWrites
    /\ writeCount' = writeCount + 1
    /\ prepared' = [prepared EXCEPT ![c] =
                      [kind |-> "put",
                       item |-> [id |-> id, category |-> categoryOf[id],
                                 lastModified |-> writeCount + 1,
                                 data |-> data]]]
    /\ UNCHANGED <<vaultVars, lastOp, cryptoVars, entries, lastPut, workerVars, analyticsVars>>

\* the put of caller c reaches the store, in one transaction
storePut(c) ==
    /\ prepared[c] # NoWrite
    /\ entries' = putItem(entries, prepared[c].item)
    /\ lastPut' = [lastPut EXCEPT ![prepared[c].item.id] = prepared[c].item]
    /\ prepared' = [prepared EXCEPT ![c] = NoWrite]
    /\ lastOp' = [op |-> "put", result |-> "ok", io |-> TRUE, from |-> State,
                  id |-> prepared[c].item.id,
                  replaced |-> get(entries, prepared[c].item.id)]
    /\ UNCHANGED <<vaultVars, cryptoVars, writeCount, workerVars, analyticsVars>>

\* remove(category, id): RecordStore.delete(id)
storeDelete(id) ==
    /\ writeCount < MaxWrites
    /\ writeCount' = writeCount + 1
    /\ entries' = deleteItem(entries, id)
    /\ lastPut' = [lastPut EXCEPT ![id] = NoRecord]
    /\ lastOp' = [op |-> "delete", result |-> "ok", io |-> TRUE,
                  from |-> State, id |-> id, replaced |-> get(entries, id)]
    /\ UNCHANGED <<vaultVars, cryptoVars, prepared, workerVars, analyticsVars>>

-----------------------------------------------------------------------------
(* The service worker (client/public/sw.js): install, activate and fetch   *)
(* events over the origin's caches.  A pathname is a sequence of pieces,   *)
(* and a URL pattern a sequence of pieces too, so that startsWith,         *)
(* includes and endsWith are computed on them.                             *)

CACHE_NAME == "securevault-v1.0.0"
STATIC_CACHE == "securevault-static-v1.0.0"
DYNAMIC_CACHE == "securevault-dynamic-v1.0.0"
\* a cache left by an earlier version of the worker
OldCache == "securevault-static-v0.9.0"
AllCacheNames == {CACHE_NAME, STATIC_CACHE, DYNAMIC_CACHE, OldCache}

OfflinePath == <<"/offline.html">>
\* '/manifest.json' holds the piece '.js'
STATIC_ASSETS == {<<"/">>, <<"/manifest", ".js", "on">>, OfflinePath}

NETWORK_ONLY_URLS == {<<"/api/", "vault">>, <<"/api/", "passwords">>,
                      <<"/api/", "subscriptions">>, <<"/api/", "auth">>,
                      <<"/api/", "session">>}
NETWORK_FIRST_URLS == {<<"/api/">>, <<"/server/">>}
CACHE_FIRST_URLS == {<<"/assets/">>, <<"/icons/">>, <<"/screenshots/">>,
                     <<".css">>, <<".js">>, <<".png">>, <<".jpg">>,
                     <<".jpeg">>, <<".gif">>, <<".webp">>, <<".svg">>,
                     <<".woff">>, <<".woff2">>}

\* the pathnames requested
Pathnames == {<<"/api/", "vault">>, <<"/api/", "vault", "/export", ".js">>,
              <<"/api/", "passwords">>, <<"/api/", "subscriptions">>,
              <<"/api/", "auth">>, <<"/api/", "session">>,
              <<"/api/", "health">>, <<"/assets/", "app", ".js">>,
              <<"/">>}
Destinations == {"document", "script"}
\* fetch(request): a response that is ok, one that is not, or a rejection
NetworkOutcomes == {"ok", "notOk", "throws"}

startsWith(pathname, pattern) ==
    /\ Len(pattern) <= Len(pathname)
    /\ SubSeq(pathname, 1, Len(pattern)) = pattern

includes(pathname, pattern) ==
    \E i \in 1..(Len(pathname) - Len(pattern) + 1) :
        SubSeq(pathname, i, i + Len(pattern) - 1) = pattern

endsWith(pathname, pattern) ==
    /\ Len(pattern) <= Len(pathname)
    /\ SubSeq(pathname, Len(pathname) - Len(pattern) + 1, Len(pathname))
         = pattern

\* no pathname is held to be sensitive
matchesNothing(pathname) == FALSE

shouldUseNetworkOnly(pathname) ==
    \E pattern \in NETWORK_ONLY_URLS : startsWith(pathname, pattern)

shouldUseNetworkFirst(pathname) ==
    \E pattern \in NETWORK_FIRST_URLS : startsWith(pathname, pattern)

shouldUseCacheFirst(pathname) ==
    \E pattern \in CACHE_FIRST_URLS :
        includes(pathname, pattern) \/ endsWith(pathname, pattern)

\* a Response, and where it came from: the network, a cache, or the worker
Response(source, status, pathname) ==
    [source |-> source, status |-> status, served |-> pathname]

\* what fetch(request) resolves to when it does not reject
networkResponse(request, net) ==
    Response("network", IF net = "ok" THEN 200 ELSE 500, request.pathname)

\* new Response(..., { status: 503, statusText: 'Service Unavailable' })
ServiceUnavailable == Response("worker", 503, <<>>)

\* getOfflinePage()
getOfflinePage == Response("worker", 200, OfflinePath)

\* a promise that resolved to undefined: respondWith has no Response
Undefined == Response("undefined", 0, <<>>)

\* caches.match(request): an entry of any cache under the pathname
match(store, pathname) ==
    IF \E e \in store : e.path = pathname
    THEN Response("cache", 200, pathname)
    ELSE Undefined

\* each strategy gives the response and the entries it puts in a cache

networkFirstStrategy(request, net, store) ==
    IF net # "throws"
    THEN [response |-> networkResponse(request, net),
          put |-> IF net = "ok" /\ ~shouldUseNetworkOnly(request.pathname)
                  THEN {[cache |-> DYNAMIC_CACHE, path |-> request.pathname]}
                  ELSE {}]
    ELSE IF match(store, request.pathname) # Undefined
    THEN [response |-> match(store, request.pathname), put |-> {}]
    \* caches.match('/offline.html') || getOfflinePage(): the left operand
    \* is a promise, which is truthy, so the right one is never evaluated
    ELSE IF request.destination = "document"
    THEN [response |-> match(store, OfflinePath), put |-> {}]
    ELSE [response |-> ServiceUnavailable, put |-> {}]

\* a failed request falls back to the caches
cacheFallbackStrategy(request, net, store) ==
    networkFirstStrategy(request, net, store)

networkOnlyStrategy(request, net, store) ==
    [response |-> IF net = "throws" THEN ServiceUnavailable
                  ELSE networkResponse(request, net),
     put |-> {}]

cacheFirstStrategy(request, net, store) ==
    LET update == IF net = "ok"
                  THEN {[cache |-> STATIC_CACHE, path |-> request.pathname]}
                  ELSE {}
    IN  IF match(store, request.pathname) # Undefined
        THEN [response |-> match(store, request.pathname), put |-> update]
        ELSE IF net = "throws"
        THEN [response |-> ServiceUnavailable, put |-> {}]
        ELSE [response |-> networkResponse(request, net), put |-> update]

handleFetchRequest(request, net, store) ==
    IF shouldUseNetworkOnly(request.pathname)
    THEN networkOnlyStrategy(request, net, store)
    ELSE IF shouldUseNetworkFirst(request.pathname)
    THEN networkFirstStrategy(request, net, store)
    ELSE IF shouldUseCacheFirst(request.pathname)
    THEN cacheFirstStrategy(request, net, store)
    ELSE networkFirstStrategy(request, net, store)

\* only the static cache is kept
isStaticCache(cacheName) == cacheName = STATIC_CACHE

\* activate: the caches that are not deleted
isCurrentCache(cacheName) ==
    \/ cacheName = STATIC_CACHE
    \/ cacheName = DYNAMIC_CACHE
    \/ cacheName = CACHE_NAME

NoResponse == [pathname |-> <<>>, destination |-> "none", net |-> "none",
               result |-> Undefined]

\* install: caches.open(STATIC_CACHE), then addAll, which adds every asset
\* or, when one request fails, none; the failure is logged and dropped
install(ok) ==
    /\ sw.phase = "parsed"
    /\ sw' = [sw EXCEPT !.phase = "installed"]
    /\ cacheNames' = cacheNames \cup {STATIC_CACHE}
    /\ cached' = IF ok
                 THEN cached \cup {[cache |-> STATIC_CACHE, path |-> p] :
                                      p \in STATIC_ASSETS}
                 ELSE cached
    /\ UNCHANGED <<vaultVars, lastOp, extVars, response>>

\* activate: every cache of caches.keys() that is not current is deleted
activate ==
    /\ sw.phase = "installed"
    /\ sw' = [phase |-> "active", found |-> cacheNames]
    /\ cacheNames' = {n \in cacheNames : isCurrentCache(n)}
    /\ cached' = {e \in cached : isCurrentCache(e.cache)}
    /\ UNCHANGED <<vaultVars, lastOp, extVars, response>>

\* a fetch event for a GET: respondWith(handleFetchRequest(request)); a
\* cache.put goes through caches.open, which creates the cache
fetchEvent(pathname, destination, net) ==
    /\ sw.phase = "active"
    /\ LET request == [pathname |-> pathname, destination |-> destination]
           handled == handleFetchRequest(request, net, cached)
       IN  /\ cached' = cached \cup handled.put
           /\ cacheNames' = cacheNames \cup {e.cache : e \in handled.put}
           /\ response' = [pathname |-> pathname, destination |-> destination,
                           net |-> net,
                           result |-> handled.response]
    /\ UNCHANGED <<vaultVars, lastOp, extVars, sw>>

\* what the origin's caches may hold when the worker is first parsed
PriorEntries == {[cache |-> DYNAMIC_CACHE, path |-> <<"/api/", "vault">>],
                 [cache |-> OldCache, path |-> <<"/">>],
                 [cache |-> STATIC_CACHE, path |-> OfflinePath]}

-----------------------------------------------------------------------------
(* SubscriptionAnalytics (unnamed/part_000): the category breakdown and    *)
(* the budget alerts, recomputed by each render.  A number is a fraction   *)
(* [n, d] with d > 0, so that /12, *4.33 and the exchange rates are exact. *)

MaxSubs == 2

RECURSIVE gcd(_, _)
gcd(a, b) == IF b = 0 THEN a ELSE gcd(b, a % b)

\* the fraction n/d in lowest terms
num(n, d) == [n |-> n \div gcd(n, d), d |-> d \div gcd(n, d)]
plus(a, b) == num(a.n * b.d + b.n * a.d, a.d * b.d)
times(a, b) == num(a.n * b.n, a.d * b.d)
\* a / b, for b > 0
dividedBy(a, b) == num(a.n * b.d, a.d * b.n)
atLeast(a, b) == a.n * b.d >= b.n * a.d
moreThan(a, b) == a.n * b.d > b.n * a.d
Zero == num(0, 1)

\* the categories of @shared/schema, in their order
SUBSCRIPTION_CATEGORIES == <<"Entertainment", "Productivity", "Other">>
CategoryNames == {SUBSCRIPTION_CATEGORIES[i] :
                    i \in DOMAIN SUBSCRIPTION_CATEGORIES}

\* currencySettings: USD is the base; EUR is 0.85
baseCurrency == "USD"
exchangeRates == [USD |-> num(1, 1), EUR |-> num(85, 100)]

\* the subscriptions a user may hold; "" is a subscription with no category
Catalog ==
    {[category |-> "Entertainment", cost |-> 8, billingCycle |-> "monthly",
      currency |-> "USD"],
     [category |-> "Entertainment", cost |-> 96, billingCycle |-> "yearly",
      currency |-> "USD"],
     [category |-> "", cost |-> 17, billingCycle |-> "monthly",
      currency |-> "EUR"],
     [category |-> "Productivity", cost |-> 100, billingCycle |-> "weekly",
      currency |-> "USD"],
     [category |-> "Productivity", cost |-> 1, billingCycle |-> "daily",
      currency |-> "USD"]}

SubscriptionEntries ==
    {[category |-> s.category, cost |-> s.cost,
      billingCycle |-> s.billingCycle, currency |-> s.currency,
      isActive |-> a] : s \in Catalog, a \in BOOLEAN}

\* the budgets the modal may save for a category; 0 is no budget
Budgets == {0, 10, 25}

convertToBaseCurrency(amount, fromCurrency) ==
    times(dividedBy(amount, exchangeRates[fromCurrency]),
          exchangeRates[baseCurrency])

\* sub.cost normalised to a month
monthlyAmount(sub) ==
    CASE sub.billingCycle = "yearly" -> dividedBy(num(sub.cost, 1), num(12, 1))
      [] sub.billingCycle = "weekly" -> times(num(sub.cost, 1), num(433, 100))
      [] sub.billingCycle = "daily" -> times(num(sub.cost, 1), num(30, 1))
      [] OTHER -> num(sub.cost, 1)

\* every subscription is taken, active or not
allSubscriptions(subs) == subs

\* subscriptions.filter(s => s.isActive)
activeSubscriptions(subs) == SelectSeq(subs, LAMBDA s : s.isActive)

\* sub.category || 'Other'
categoryOfSub(sub) == IF sub.category = "" THEN "Other" ELSE sub.category

RECURSIVE addAll(_, _)
\* the forEach over the active subscriptions, adding each to its category
addAll(categoryData, subs) ==
    IF subs = <<>> THEN categoryData
    ELSE LET sub == Head(subs)
             category == categoryOfSub(sub)
             converted == convertToBaseCurrency(monthlyAmount(sub),
                                                sub.currency)
             data == categoryData[category]
         IN  addAll([categoryData EXCEPT ![category] =
                        [monthly |-> plus(data.monthly, converted),
                         yearly |-> plus(data.yearly,
                                         times(converted, num(12, 1))),
                         count |-> data.count + 1,
                         subscriptions |-> Append(data.subscriptions, sub)]],
                    Tail(subs))

\* the categoryAnalytics memo
categoryData(subs) ==
    addAll([category \in CategoryNames |->
               [monthly |-> Zero, yearly |-> Zero, count |-> 0,
                subscriptions |-> <<>>]],
           activeSubscriptions(subs))

\* (data.monthly / budget) * 100
percentageOf(monthly, budget) ==
    times(dividedBy(monthly, num(budget, 1)), num(100, 1))

RECURSIVE pushAlerts(_, _, _)
\* the forEach over the categories, pushing an alert at 80% or more
pushAlerts(analytics, budgets, i) ==
    IF i > Len(SUBSCRIPTION_CATEGORIES) THEN <<>>
    ELSE LET category == SUBSCRIPTION_CATEGORIES[i]
             data == analytics[category]
             budget == budgets[category]
             rest == pushAlerts(analytics, budgets, i + 1)
         IN  IF /\ budget > 0
                /\ moreThan(data.monthly, Zero)
                /\ atLeast(percentageOf(data.monthly, budget), num(80, 1))
             THEN <<[category |-> category, spending |-> data.monthly,
                     budget |-> budget,
                     percentage |-> percentageOf(data.monthly, budget)]>>
                  \o rest
             ELSE rest

RECURSIVE sortDescending(_)
\* alerts.sort((a, b) => b.percentage - a.percentage): a stable sort
sortDescending(pushed) ==
    IF pushed = <<>> THEN <<>>
    ELSE LET sorted == sortDescending(Tail(pushed))
             a == Head(pushed)
             \* a goes before the first element it is at least as large as
             before == SelectSeq(sorted,
                          LAMBDA b : moreThan(b.percentage, a.percentage))
             after == SelectSeq(sorted,
                          LAMBDA b : ~moreThan(b.percentage, a.percentage))
         IN  before \o <<a>> \o after

\* the budgetAlerts memo
alerts(analytics, budgets) == sortDescending(pushAlerts(analytics, budgets, 1))

\* a render: both memos are recomputed from the new props and state
render ==
    /\ categoryAnalytics' = categoryData(subscriptions')
    /\ budgetAlerts' = alerts(categoryData(subscriptions'), budgetSettings')

\* the parent passes a list with one more subscription
subscriptionAdded(sub) ==
    /\ Len(subscriptions) < MaxSubs
    /\ subscriptions' = Append(subscriptions, sub)
    /\ UNCHANGED budgetSettings
    /\ render
    /\ UNCHANGED <<vaultVars, lastOp, cryptoVars, recordVars, workerVars>>

\* the parent passes a list in which one subscription is paused or resumed
subscriptionToggled(i) ==
    /\ i \in DOMAIN subscriptions
    /\ subscriptions' = [subscriptions EXCEPT ![i].isActive = ~@]
    /\ UNCHANGED budgetSettings
    /\ render
    /\ UNCHANGED <<vaultVars, lastOp, cryptoVars, recordVars, workerVars>>

\* saveBudgetSettings(newBudgets), with one category's budget changed
saveBudgetSettings(category, budget) ==
    /\ budgetSettings[category] # budget
    /\ budgetSettings' = [budgetSettings EXCEPT ![category] = budget]
    /\ UNCHANGED subscriptions
    /\ render
    /\ UNCHANGED <<vaultVars, lastOp, cryptoVars, recordVars, workerVars>>

-----------------------------------------------------------------------------
InitVault ==
    /\ masterKey = NoKey
    /\ autoLockTimer = NoTimer
    /\ timers = {}
    /\ nextTimerId = 1
    /\ now = 0
    /\ unlockPc = "idle"
    /\ unlockPw = "none"
    /\ unlockSalt = FirstSalt
    /\ lastEvent = "none"
    /\ \E pw \in Passwords :
         metadata = [salt |-> FirstSalt,
                     keyCheckEnvelope |->
                         encrypt(KeyCheckConstant, deriveKey(pw, FirstSalt))]
    /\ records = EmptyStore
    /\ savePc = "idle"
    /\ saveItem = NoRecord
    /\ lastOp = [op |-> "none", result |-> "none", io |-> FALSE, from |-> "Locked"]
    /\ lastActivity = 0
    /\ lastSaved = [id \in Ids |-> NoPlaintext]
    /\ rekey = NoRekey
    /\ rekeyPre = [metadata |-> NoMeta, records |-> EmptyStore]
    /\ bundle = NoBundle
    /\ import = [pc |-> "idle", pw |-> "pwA"]
    /\ exported = [plain |-> [id \in Ids |-> NoPlaintext], wiped |-> FALSE]
    /\ crypto = NoCrypto
    /\ entries = {}
    /\ prepared = [c \in Callers |-> NoWrite]
    /\ lastPut = [id \in StoreIds |-> NoRecord]
    /\ writeCount = 0
    /\ subscriptions = <<>>
    /\ budgetSettings = [category \in CategoryNames |-> 0]
    /\ categoryAnalytics = categoryData(<<>>)
    /\ budgetAlerts = <<>>

\* the vault, with no service worker registered
Init ==
    /\ InitVault
    /\ sw = [phase |-> "none", found |-> {}]
    /\ cacheNames = {}
    /\ cached = {}
    /\ response = NoResponse

\* the service worker is parsed on an origin that may hold caches already
InitWorker ==
    /\ InitVault
    /\ metadata.keyCheckEnvelope.key.pw = "pwA"
    /\ sw = [phase |-> "parsed", found |-> {}]
    /\ cacheNames \in SUBSET AllCacheNames
    /\ cached \in SUBSET {e \in PriorEntries : e.cache \in cacheNames}
    /\ response = NoResponse

\* The vault without a clock: no timeout ever comes due
Next ==
    \/ \E password \in Passwords : unlockBegin(password)
    \/ unlockDerive
    \/ unlockVerify
    \/ lock
    \/ \E id \in Ids, plaintext \in Plaintexts : saveEncrypt(id, plaintext)
    \/ savePut
    \/ \E id \in Ids : load(id)
    \/ listDecrypted

Spec == Init /\ [][Next]_vars

\* The vault under the clock; what the records hold plays no part in the
\* timing, so one record and one payload are written and read
ClockIds == {Head(IdOrder)}
ClockPlaintexts == {"site1"}

NextClock ==
    \/ \E password \in Passwords : unlockBegin(password)
    \/ unlockDerive
    \/ unlockVerify
    \/ lock
    \/ timerFires
    \/ tick
    \/ \E id \in ClockIds, plaintext \in ClockPlaintexts :
           saveEncrypt(id, plaintext)
    \/ savePut
    \/ \E id \in ClockIds : load(id)
    \/ listDecrypted

SpecClock == Init /\ [][NextClock]_vars

\* The vault with password changes
NextRekey ==
    \/ \E password \in Passwords : unlockBegin(password)
    \/ unlockDerive
    \/ unlockVerify
    \/ lock
    \/ \E id \in Ids, plaintext \in ClockPlaintexts : saveEncrypt(id, plaintext)
    \/ savePut
    \/ \E newPassword \in Passwords : rekeyBegin(newPassword)
    \/ rekeyStage
    \/ rekeyCommit

SpecRekey == Init /\ [][NextRekey]_vars

\* The vault with export, wipe and import
NextBundle ==
    \/ \E password \in Passwords : unlockBegin(password)
    \/ unlockDerive
    \/ unlockVerify
    \/ \E id \in Ids, plaintext \in ClockPlaintexts : saveEncrypt(id, plaintext)
    \/ savePut
    \/ exportBundle
    \/ wipe
    \/ \E password \in Passwords : importBegin(password)
    \/ importWrite

SpecBundle == Init /\ [][NextBundle]_vars

\* CryptoService alone
NextCrypto ==
    \/ \E password \in Passwords, salt \in Salts : cryptoDerive(password, salt)
    \/ \E plaintext \in Plaintexts : cryptoEncrypt(plaintext)
    \/ cryptoTamper
    \/ \E password \in Passwords, salt \in Salts : cryptoDecrypt(password, salt)

SpecCrypto == Init /\ [][NextCrypto]_vars

\* RecordStore alone, under two callers
NextStore ==
    \/ \E c \in Callers, id \in StoreIds, data \in Envelopes :
           storePrepare(c, id, data)
    \/ \E c \in Callers : storePut(c)
    \/ \E id \in StoreIds : storeDelete(id)

SpecStore == Init /\ [][NextStore]_vars

\* The service worker alone
NextWorker ==
    \/ \E ok \in BOOLEAN : install(ok)
    \/ activate
    \/ \E pathname \in Pathnames, destination \in Destinations,
          net \in NetworkOutcomes : fetchEvent(pathname, destination, net)

SpecWorker == InitWorker /\ [][NextWorker]_vars

\* SubscriptionAnalytics alone
NextAnalytics ==
    \/ \E sub \in SubscriptionEntries : subscriptionAdded(sub)
    \/ \E i \in 1..MaxSubs : subscriptionToggled(i)
    \/ \E category \in CategoryNames, budget \in Budgets :
          saveBudgetSettings(category, budget)

SpecAnalytics == Init /\ [][NextAnalytics]_vars

-----------------------------------------------------------------------------
(* Properties of the KeyManager and of the storage path *)

\* the inactivity window the deployment configures: AUTO_LOCK_MINUTES
AUTO_LOCK_MINUTES == 15

VaultCalls == {"save", "load", "listDecrypted"}

\* C1: a save, load or listDecrypted call made while the KeyManager is not
\* Unlocked fails with VaultLocked and reads and writes nothing.
C1_CallsFailOutsideUnlocked ==
    lastOp.op \in VaultCalls /\ lastOp.from # "Unlocked"
        => lastOp.result = "VaultLocked" /\ ~lastOp.io

\* the password of the unlock() last begun does not verify
WrongPassword ==
    /\ unlockPw \in Passwords
    /\ ~keyChecks(metadata, deriveKey(unlockPw, unlockSalt))

\* C2: an unlock whose password does not verify returns false (the
\* InvalidCredentials signal), and when it returns the KeyManager is Locked,
\* holds no key and no timer handle, and the call has armed no timeout.
C2_FailedUnlockKeepsNothing ==
    [][unlockPc = "verify" /\ unlockPc' = "idle" /\ WrongPassword
           => /\ lastOp'.op = "unlock" /\ lastOp'.result = "false"
              /\ State' = "Locked"
              /\ masterKey' = NoKey
              /\ autoLockTimer' = NoTimer
              /\ timers' \subseteq timers]_vars

\* a wrong password was tried on a vault never unlocked, and the call is over
C2_Witness ==
    /\ WrongPassword
    /\ unlockPc = "idle"
    /\ nextTimerId = 1
    /\ lastOp.op = "unlock" /\ lastOp.result = "false"
    /\ lastOp.from = "Unlocking"

SaveCall == \E id \in Ids, plaintext \in Plaintexts : saveEncrypt(id, plaintext)

\* C3: after lock() every save and load fails with VaultLocked until the
\* next successful unlock; and once unlocked with the correct password,
\* load of a saved id returns the plaintext last saved for it.
C3_LockThenUnlockRestores ==
    [][/\ (SaveCall \/ \E id \in Ids : load(id)) /\ lastEvent = "Locked"
              => savePc' = "idle" /\ lastOp'.result = "VaultLocked"
       /\ \A id \in Ids :
              /\ load(id)
              /\ State = "Unlocked" /\ verifyKey(masterKey)
              /\ lastSaved[id] # NoPlaintext
              => lastOp'.result = lastSaved[id]]_vars

C6_ActivityResetsCountdown ==
    lastOp.op = "autoLock" /\ lastOp.from = "Unlocked"
        => now >= lastActivity + AUTO_LOCK_MINUTES
\* a stored record encrypted under `key`
under(store, key) == {id \in stored(store) : store[id].data.key = key}

\* C7: a rekey that fails at any record index ends with RekeyAborted, the
\* metadata and every stored record exactly as they were before the rekey
\* began, and no record encrypted under the new key.
C7_RekeyAbortRestores ==
    [][rekey.pc = "staging" /\ rekey'.pc = "idle" /\ lastOp'.result # "ok"
         => /\ lastOp'.op = "rekey"
            /\ lastOp'.result = "RekeyAborted"
            /\ metadata' = rekeyPre.metadata
            /\ records' = rekeyPre.records
            /\ under(records', rekey.newKey) = {}
            /\ masterKey' = masterKey]_vars

C7_Witness ==
    /\ lastOp.op = "rekey"
    /\ lastOp.result = "RekeyAborted"
    /\ rekey.index = 1
    /\ Cardinality(stored(records)) = 2
    /\ records = rekeyPre.records
    /\ metadata = rekeyPre.metadata

\* C8: the new VaultMetadata is written only once every record is
\* re-encrypted and staged: while records are being staged the metadata is
\* the pre-rekey one, and the step that writes the new salt leaves every
\* stored record under the new key.
C8_MetadataAfterAllStaged ==
    /\ [](rekey.pc = "staging" => metadata = rekeyPre.metadata)
    /\ [][rekey.pc = "staging" /\ metadata' # metadata
            => /\ \A id \in stored(records) : rekey.staged[id] # NoRecord
               /\ metadata'.salt = rekey.newKey.salt
               /\ keyChecks(metadata', rekey.newKey)
               /\ stored(records') = stored(records)
               /\ under(records', rekey.newKey) = stored(records')]_vars

C8_Witness ==
    /\ lastOp.op = "rekey"
    /\ lastOp.result = "ok"
    /\ rekey.index = 2
    /\ metadata.salt = FirstSalt + 1
    /\ under(records, rekey.newKey) = Ids

\* the password's key opens the bundle's keyCheckEnvelope
Opens(password) ==
    keyChecks(bundle.metadata, deriveKey(password, bundle.metadata.salt))

\* C9: importBundle checks the bundle's keyCheckEnvelope under the given
\* password before it writes anything; a password that does not verify ends
\* in ImportAuthenticationFailed with local metadata and records unchanged;
\* a storage failure during the import leaves the prior local state whole.
C9_ImportVerifiesFirst ==
    /\ [](import.pc = "write" => Opens(import.pw))
    /\ [][/\ (\E password \in Passwords : importBegin(password))
             => /\ UNCHANGED storeVars
                /\ ~Opens(import'.pw)
                     => /\ import'.pc = "idle"
                        /\ lastOp'.op = "import"
                        /\ lastOp'.result = "ImportAuthenticationFailed"
          /\ importWrite
             => \/ /\ lastOp'.result = "ok"
                   /\ metadata' = bundle.metadata
                   /\ listAll(records') = bundle.records
                \/ /\ lastOp'.result = "StorageFailure"
                   /\ UNCHANGED storeVars]_vars

C9_Witness ==
    /\ lastOp.op = "import"
    /\ lastOp.result = "ImportAuthenticationFailed"
    /\ ~Opens(import.pw)
    /\ stored(records) = Ids
    /\ listAll(records) # bundle.records

C11_RecordsUnderVaultKey ==
    metadata # NoMeta =>
        \A id \in stored(records) :
            /\ keyChecks(metadata, records[id].data.key)
            /\ State = "Unlocked"
                 => decrypt(records[id].data, masterKey) # DecryptionFailed

\* C12: a save in flight when lock() or the auto-lock timer runs completes
\* with the key it captured, never with a missing key, and every save
\* started after the lock fails with VaultLocked.
C12_LockAgainstInFlight ==
    [][/\ savePut => /\ saveItem.data.key # NoKey
                     /\ records'[saveItem.id].data = saveItem.data
       /\ SaveCall /\ lastEvent = "Locked"
            => /\ savePc' = "idle"
               /\ lastOp'.op = "save"
               /\ lastOp'.result = "VaultLocked"]_vars

RecordDecryption ==
    \/ listDecrypted /\ lastOp'.io /\ stored(records) # {}
    \/ \E id \in stored(records) : load(id) /\ lastOp'.io

\* C18: in every unlock the keyCheckEnvelope is decrypted before any record
\* envelope is: no record is decrypted under a key whose check is pending
\* or has failed, and a successful unlock has decrypted keyCheckEnvelope to
\* the known constant.
C18_KeyCheckBeforeRecords ==
    [][/\ RecordDecryption => unlockPc # "verify" /\ verifyKey(masterKey)
       /\ unlockVerify /\ lastOp'.result = "true"
            => decrypt(metadata.keyCheckEnvelope, masterKey) = KeyCheckConstant
      ]_vars

\* the records the store holds under an id
withId(store, id) == {r \in store : r.id = id}

\* C14: with two callers writing and removing the same id, each write that
\* reaches the store leaves under that id exactly what it wrote (a removal:
\* nothing), whatever was there and whatever the other caller holds; other
\* ids are untouched and no write is turned down.
C14_LastWriteWins ==
    [][/\ \A c \in Callers :
            storePut(c)
              => /\ withId(entries', prepared[c].item.id) = {prepared[c].item}
                 /\ \A id \in StoreIds \ {prepared[c].item.id} :
                        withId(entries', id) = withId(entries, id)
                 /\ lastOp'.result = "ok"
       /\ \A id \in StoreIds :
            storeDelete(id)
              => /\ withId(entries', id) = {}
                 /\ \A other \in StoreIds \ {id} :
                        withId(entries', other) = withId(entries, other)
                 /\ lastOp'.result = "ok"]_vars

C14_Witness ==
    /\ lastOp.op = "put"
    /\ lastOp.replaced # NoRecord
    /\ get(entries, lastOp.id) # NoRecord
    /\ lastOp.replaced.lastModified > get(entries, lastOp.id).lastModified
    /\ \A c \in Callers : prepared[c] = NoWrite

C19_StoreIsMapById ==
    /\ [](\A id \in StoreIds :
             /\ get(entries, id) = lastPut[id]
             /\ Cardinality(withId(entries, id)) <= 1)
    /\ [][\A id \in StoreIds :
             /\ get(entries, id) = NoRecord /\ get(entries', id) # NoRecord
                  => \E c \in Callers :
                        storePut(c) /\ prepared[c].item.id = id
             /\ get(entries, id) # NoRecord /\ get(entries', id) # NoRecord
                  => /\ get(entries', id).id = id
                     /\ get(entries', id).category
                          = get(entries, id).category]_vars

C19_Witness ==
    /\ lastOp.op = "delete"
    /\ lastOp.replaced # NoRecord
    /\ lastOp.replaced.lastModified = 2
    /\ get(entries, lastOp.id) = NoRecord
    /\ lastPut[lastOp.id] = NoRecord
    /\ entries = {}

\* the members of a sequence
Range(seq) == {seq[i] : i \in 1..Len(seq)}

MetadataReadFails ==
    \E password \in Passwords : unlockBegin(password) /\ unlockPc' = "idle"

\* C22: a datastore error during unlock reaches the caller as
\* StorageFailure: not as the answer a wrong password gets, and not as
\* success.
C22_StorageFailureSurfaces ==
    [][MetadataReadFails
         => /\ lastOp'.op = "unlock"
            /\ lastOp'.result = "StorageFailure"]_vars

\* an envelope sealed by AES-GCM under a key: readable with that key only
IsCiphertext(envelope) ==
    /\ envelope.algorithm = "AES-GCM"
    /\ envelope.key # NoKey

SensitiveEndpoint(pathname) ==
    \E prefix \in {<<"/api/", "vault">>, <<"/api/", "passwords">>,
                   <<"/api/", "subscriptions">>, <<"/api/", "auth">>,
                   <<"/api/", "session">>} : startsWith(pathname, prefix)

\* C24: no step of the service worker writes to any cache an entry for a
\* pathname that starts with a sensitive prefix, also when the pathname
\* matches a network-first prefix (/api/) or a cache-first pattern (.js).
C24_SensitiveNeverCached ==
    [][\A e \in cached' \ cached : ~SensitiveEndpoint(e.path)]_vars

C24_Witness ==
    /\ response.pathname = <<"/api/", "vault", "/export", ".js">>
    /\ shouldUseNetworkFirst(response.pathname)
    /\ shouldUseCacheFirst(response.pathname)
    /\ response.net = "ok"
    /\ response.result.source = "network"
    /\ \A e \in cached : e.path # response.pathname
    /\ [cache |-> DYNAMIC_CACHE, path |-> <<"/api/", "health">>] \in cached
    /\ [cache |-> STATIC_CACHE, path |-> <<"/assets/", "app", ".js">>]
         \in cached

\* C25: a fetch event for a sensitive endpoint is never answered from a
\* cache, and when the network fails it is answered with the worker's 503
\* response, whatever the caches hold.
C25_SensitiveNeverFromCache ==
    SensitiveEndpoint(response.pathname)
        => /\ response.result.source # "cache"
           /\ response.net = "throws"
                 => response.result = ServiceUnavailable
           /\ response.net # "throws"
                 => response.result.source = "network"

C25_Witness ==
    /\ response.pathname = <<"/api/", "vault">>
    /\ response.net = "throws"
    /\ response.result.status = 503
    /\ response.result.source = "worker"
    /\ [cache |-> DYNAMIC_CACHE, path |-> <<"/api/", "vault">>] \in cached

\* the pathnames that handleFetchRequest gives to the network-first strategy
ByNetworkFirst(pathname) ==
    /\ ~SensitiveEndpoint(pathname)
    /\ shouldUseNetworkFirst(pathname) \/ ~shouldUseCacheFirst(pathname)

\* C26: when the network fails for a navigation request handled network
\* first and no cache holds the request, the answer is an offline page: the
\* cached /offline.html when there is one, otherwise the generated page; it
\* is never undefined.
C26_OfflinePageForNavigation ==
    (/\ ByNetworkFirst(response.pathname)
     /\ response.net = "throws"
     /\ response.destination = "document"
     /\ \A e \in cached : e.path # response.pathname)
        => /\ response.result # Undefined
           /\ response.result =
                 IF \E e \in cached : e.path = OfflinePath
                 THEN Response("cache", 200, OfflinePath)
                 ELSE getOfflinePage

\* C27: activate leaves exactly the caches it found that are named
\* STATIC_CACHE, DYNAMIC_CACHE or CACHE_NAME: every other cache is deleted
\* and none of the three is.
C27_ActivateKeepsCurrent ==
    [][activate
         => /\ cacheNames' \subseteq {STATIC_CACHE, DYNAMIC_CACHE, CACHE_NAME}
            /\ cacheNames' =
                 cacheNames \cap {STATIC_CACHE, DYNAMIC_CACHE, CACHE_NAME}
            /\ \A e \in cached : e.cache \in cacheNames' => e \in cached']_vars

C27_Witness ==
    /\ sw.phase = "active"
    /\ response = NoResponse
    /\ sw.found = AllCacheNames
    /\ cacheNames = {STATIC_CACHE, DYNAMIC_CACHE, CACHE_NAME}
    /\ [cache |-> DYNAMIC_CACHE, path |-> <<"/api/", "vault">>] \in cached
    /\ \A e \in cached : e.cache # OldCache

\* a key derived from a password that does not open the vault
FromWrongPassword(key) ==
    \E password \in Passwords, salt \in 1..MaxSalt :
        /\ key = deriveKey(password, salt)
        /\ ~keyChecks(metadata, key)

\* C28: the key the KeyManager holds in memory is never a candidate that
\* verifyKey has not accepted, and no record, stored or about to be stored,
\* is encrypted under a key derived from a wrong password.
C28_NoUnverifiedKey ==
    /\ masterKey # NoKey => unlockPc # "verify" /\ verifyKey(masterKey)
    /\ saveItem # NoRecord => ~FromWrongPassword(saveItem.data.key)
    /\ \A id \in stored(records) : ~FromWrongPassword(records[id].data.key)

\* C29: a timeout is pending when the KeyManager is Unlocked and none is
\* when it is Locked, and never more than one is pending: the one it holds
\* the handle of, so that no timeout of an earlier unlock is left armed.
C29_OneTimerIffUnlocked ==
    /\ State = "Unlocked" => timers # {}
    /\ State = "Locked" => timers = {}
    /\ Cardinality(timers) <= 1
    /\ \A t \in timers : t.id = autoLockTimer

\* the positions of the active subscriptions of a category
ActiveIn(category) ==
    {i \in DOMAIN subscriptions :
        /\ subscriptions[i].isActive
        /\ categoryOfSub(subscriptions[i]) = category}

RECURSIVE SpendingOf(_)
\* the monthly spending, in the base currency, of the subscriptions at a set
\* of positions
SpendingOf(positions) ==
    IF positions = {} THEN Zero
    ELSE LET i == CHOOSE j \in positions : TRUE
         IN  plus(convertToBaseCurrency(monthlyAmount(subscriptions[i]),
                                        subscriptions[i].currency),
                  SpendingOf(positions \ {i}))

\* a category is over 80% of its budget
Alerting(category) ==
    /\ budgetSettings[category] > 0
    /\ moreThan(SpendingOf(ActiveIn(category)), Zero)
    /\ atLeast(percentageOf(SpendingOf(ActiveIn(category)),
                            budgetSettings[category]), num(80, 1))

\* C30: only the active subscriptions count towards a category's spending,
\* and budgetAlerts holds exactly the categories with a budget above 0, a
\* monthly spending above 0 and monthly / budget * 100 of at least 80, once
\* each, in descending order of that percentage.
C30_BudgetAlerts ==
    /\ \A category \in CategoryNames :
         /\ categoryAnalytics[category].count
              = Cardinality(ActiveIn(category))
         /\ categoryAnalytics[category].monthly
              = SpendingOf(ActiveIn(category))
    /\ {budgetAlerts[i].category : i \in DOMAIN budgetAlerts}
         = {category \in CategoryNames : Alerting(category)}
    /\ \A i, j \in DOMAIN budgetAlerts :
         /\ i # j => budgetAlerts[i].category # budgetAlerts[j].category
         /\ i < j => atLeast(budgetAlerts[i].percentage,
                             budgetAlerts[j].percentage)
    /\ \A i \in DOMAIN budgetAlerts :
         budgetAlerts[i].percentage
           = percentageOf(SpendingOf(ActiveIn(budgetAlerts[i].category)),
                          budgetSettings[budgetAlerts[i].category])

C30_Witness ==
    /\ Len(subscriptions) = 2
    /\ ~subscriptions[1].isActive
    /\ subscriptions[1].category = "Productivity"
    /\ budgetSettings["Productivity"] = 10
    /\ subscriptions[2].isActive
    /\ subscriptions[2].billingCycle = "yearly"
    /\ categoryAnalytics["Productivity"].monthly = Zero
    /\ Len(budgetAlerts) = 1
    /\ budgetAlerts[1].category = "Entertainment"
    /\ budgetAlerts[1].percentage = num(80, 1)

====
